---- MODULE Spec2Model ----
(***************************************************************************)
(* Model of rpc::client (lib/rpc/client.cc): the connection state machine, *)
(* the read loop with its response dispatch, the table of ongoing calls,   *)
(* the strand that serialises posted closures, and the caller-side         *)
(* operations get_next_call_idx, post, wait_conn, reconnect and            *)
(* wait_all_responses.                                                     *)
(***************************************************************************)
EXTENDS Integers, Sequences, FiniteSets

\* ---------------------------------------------------------------- bounds
\* posts (calls and raw buffers) submitted in one run
MaxPosts == 2
\* connect attempts in one run, the constructor's included
MaxAttempts == 2
\* read completions (successful or failed) in one run
MaxReads == 2
\* calls of wait_all_responses in one run
MaxWaits == 1

\* caller threads
Threads == {1, 2}
\* the method each caller thread calls
MethodOf == [t \in Threads |-> IF t = 1 THEN "f" ELSE "g"]
\* ids a response frame can carry
FrameIds == {1, 2, 3}
\* ids the table can hold: those of frames and those the counter reaches
TableIds == FrameIds \cup 1..MaxPosts
\* the result object, and the error object, of the peer's response to call id
ResultOf(id) == 10 + id
ErrorOf(id) == 20 + id
\* the frames one read can decode: none, one or two
Frames == {[id |-> i, err |-> e, payload |-> IF e THEN ErrorOf(i) ELSE ResultOf(i)] :
             i \in FrameIds, e \in BOOLEAN}
Batches == {<<>>} \cup {<<f>> : f \in Frames} \cup {<<f, g>> : f \in Frames, g \in Frames}
\* the error codes a read can complete with: peer close, reset, any other
ErrorCodes == {"eof", "connection_reset", "other"}
\* the value of timeout_ when set (milliseconds); NoTimeout is nonstd::nullopt
TimeoutMs == 50
NoTimeout == 0

VARIABLES
  state_,          \* impl::state_: "initial", "connected", "disconnected"
  is_connected_,   \* impl::is_connected_
  call_idx_,       \* impl::call_idx_, the atomic counter
  ongoing_calls_,  \* impl::ongoing_calls_: id -> [name, prom, ready], or NoCall
  strand_q,        \* closures posted to impl::strand_, in posting order
  written,         \* buffers handed to writer_->write, in hand-off order
  timeout_,        \* impl::timeout_
  callback_,       \* impl::callback_ is set
  cb_log,          \* the invocations of the state handler: <<prev, new>>
  conn_prom,       \* the conn_promise of each connect attempt
  pac_,            \* impl::pac_: the connections whose bytes it holds unparsed
  reads_armed,     \* async_read_some operations outstanding
  nreads,          \* read completions so far
  io_thread,       \* the thread in io_.run(): "running", "returned", "terminated", "stopped"
  faulted_on,      \* the frame id at which an exception left the read handler (0: none)
  mutex,           \* holder of mut_connection_finished_ (0: free)
  pc,              \* position of each caller thread
  idx,             \* the idx a caller thread got from get_next_call_idx
  att,             \* the connect attempt a thread blocked in reconnect() waits for
  st,              \* wait_conn's local copy of state_ ("none": not in wait_conn)
  timed,           \* timeout_ was set when a thread's wait_conn checked the state
  wake,            \* why a thread's condition-variable wait ended
  wc_result,       \* how a thread's last wait_conn ended
  calls,           \* every post so far: [idx, name, raw]
  fut,             \* the shared state of each call's promise/future
  wa,              \* each thread's wait_all_responses: [snap, seen, result]
  raced,           \* the engine changed the table while a caller iterated it
  touched          \* what caller threads accessed directly: "table", "socket"

vars == <<state_, is_connected_, call_idx_, ongoing_calls_, strand_q, written,
          timeout_, callback_, cb_log, conn_prom, pac_, reads_armed, nreads, io_thread,
          faulted_on, mutex, pc, idx, att, st, timed, wake, wc_result, calls, fut,
          wa, raced, touched>>

Pending == [kind |-> "pending"]
Broken == [kind |-> "broken"]

\* call_t default-constructed by ongoing_calls_[id] for an absent id: an empty
\* method name and a fresh promise nobody holds the future of (got: the
\* promise's get_future has been called)
DefaultCall == [name |-> "", prom |-> 0, ready |-> FALSE, got |-> FALSE]
\* the table holds no entry under an id
NoCall == [name |-> "", prom |-> -1, ready |-> FALSE, got |-> FALSE]
Has(tbl, id) == tbl[id] # NoCall

\* a thread that is not in wait_all_responses and has not been
NoWait == [snap |-> {}, seen |-> {}, result |-> "none"]
\* the caller threads inside the loop of wait_all_responses
Iterating == {t \in Threads : pc[t] = "wa_iter"}

\* ------------------------------------------------------------ set_state
\* prev read after state_ was assigned: the handler sees (new, new)
SetState_PrevAfterAssign(new) ==
  /\ state_' = new
  /\ cb_log' = IF callback_ THEN Append(cb_log, <<new, new>>) ELSE cb_log

\* set_state(new): prev is read, state_ assigned, and the handler, when one
\* is set, invoked with (prev, state_)
SetState(new) ==
  /\ state_' = new
  /\ cb_log' = IF callback_ THEN Append(cb_log, <<state_, new>>) ELSE cb_log

\* ------------------------------------------------------------- dispatch
\* what the completion of a call receives from frame f: the value, or an
\* rpc_error tagged with the function name stored in the table entry
Outcome(f, name) ==
  IF f.err
    THEN [kind |-> "error", func |-> name, payload |-> f.payload]
    ELSE [kind |-> "value", payload |-> f.payload]

\* a frame of another call's id taken for this one: the key is off by one
KeyOf_OffByOne(f) == IF f.id > 1 THEN f.id - 1 ELSE f.id

\* auto id = r.get_id(): the key the response is looked up under
KeyOf(f) == f.id

\* the entry do_read works on for frame id: ongoing_calls_[id] inserts a
\* default entry when the id is absent
Lookup(tbl, id) ==
  IF Has(tbl, id) THEN tbl ELSE [tbl EXCEPT ![id] = DefaultCall]

\* one iteration of the while (pac_.next(result)) loop. s is the state the
\* loop carries: the table, the futures, the erase closures posted so far,
\* and the frame id at which an exception has left the handler (0: none)
DispatchFrame(s, f) ==
  IF s.fault # 0 THEN s
  ELSE LET id == KeyOf(f)
           tbl1 == Lookup(s.tbl, id)
           cur == tbl1[id]
       IN IF cur.ready
            \* set_value / set_exception on a satisfied promise throws
            \* future_error; the catch block's set_exception throws it again
            THEN [s EXCEPT !.tbl = tbl1, !.fault = id]
            ELSE [tbl |-> [tbl1 EXCEPT ![id].ready = TRUE],
                  fut |-> IF cur.prom # 0
                            THEN [s.fut EXCEPT ![cur.prom] = Outcome(f, cur.name)]
                            ELSE s.fut,
                  posts |-> Append(s.posts, [op |-> "erase", arg |-> id]),
                  fault |-> 0]

RECURSIVE DispatchBatch(_, _)
DispatchBatch(s, batch) ==
  IF batch = <<>> THEN s
  ELSE DispatchBatch(DispatchFrame(s, Head(batch)), Tail(batch))

\* ------------------------------------------------------------------ Init
\* the state after client::client(addr, port, cb): the state handler is set,
\* do_connect has started the first attempt and the io thread runs io_.run()
Init ==
  /\ state_ = "initial"
  /\ is_connected_ = FALSE
  /\ call_idx_ = 0
  /\ ongoing_calls_ = [i \in TableIds |-> NoCall]
  /\ strand_q = <<>>
  /\ written = <<>>
  /\ timeout_ = NoTimeout
  /\ callback_ = TRUE
  /\ cb_log = <<>>
  /\ conn_prom = <<"pending">>
  /\ pac_ = {}
  /\ reads_armed = 0
  /\ nreads = 0
  /\ io_thread = "running"
  /\ faulted_on = 0
  /\ mutex = 0
  /\ pc = [t \in Threads |-> "idle"]
  /\ idx = [t \in Threads |-> 0]
  /\ att = [t \in Threads |-> 0]
  /\ st = [t \in Threads |-> "none"]
  /\ timed = [t \in Threads |-> FALSE]
  /\ wake = [t \in Threads |-> "none"]
  /\ wc_result = [t \in Threads |-> "none"]
  /\ calls = <<>>
  /\ fut = <<>>
  /\ wa = [t \in Threads |-> NoWait]
  /\ raced = FALSE
  /\ touched = {}

\* the process is alive and the client not destroyed: callers may act
Alive == io_thread \in {"running", "returned"}
\* handlers run only while the io thread is inside io_.run()
Running == io_thread = "running"

\* ------------------------------------------------- engine: do_connect
\* the success branch run without taking mut_connection_finished_
HandlerLock_NotTaken(m) == TRUE

\* std::unique_lock<std::mutex> lock(mut_connection_finished_) in the
\* success branch: the handler runs it once the mutex m is free
HandlerLock(m) == m = 0

\* the handler of async_connect, success branch
ConnectSucceed(k) ==
  /\ Running
  /\ conn_prom[k] = "pending"
  /\ HandlerLock(mutex)
  /\ is_connected_' = TRUE
  /\ SetState("connected")
  /\ conn_prom' = [conn_prom EXCEPT ![k] = "connected"]
  /\ pc' = [t \in Threads |-> IF pc[t] = "wc_wait" THEN "wc_woken" ELSE pc[t]]
  /\ wake' = [t \in Threads |-> IF pc[t] = "wc_wait" THEN "notify" ELSE wake[t]]
  /\ reads_armed' = reads_armed + 1
  /\ UNCHANGED <<call_idx_, ongoing_calls_, strand_q, written, timeout_, callback_,
                 pac_, nreads, io_thread, faulted_on, mutex, idx, att, st, timed,
                 wc_result, calls, fut, wa, raced, touched>>

\* the handler of async_connect, failure branch
ConnectFail(k) ==
  /\ Running
  /\ conn_prom[k] = "pending"
  /\ SetState("disconnected")
  /\ conn_prom' = [conn_prom EXCEPT ![k] = "disconnected"]
  /\ UNCHANGED <<is_connected_, call_idx_, ongoing_calls_, strand_q, written, timeout_,
                 callback_, pac_, reads_armed, nreads, io_thread, faulted_on, mutex,
                 pc, idx, att, st, timed, wake, wc_result, calls, fut, wa, raced,
                 touched>>

\* ---------------------------------------------------- engine: do_read
\* the connection the socket is on: the number of attempts that succeeded
Episode == Cardinality({k \in DOMAIN conn_prom : conn_prom[k] = "connected"})

\* pac_.buffer_consumed(length) and the pac_.next loop: the bytes of the
\* chunk join those pac_ holds; a chunk that completes no frame (the empty
\* batch) stays in pac_ with them, a chunk that ends at the end of a frame
\* leaves nothing behind. pac_ is a member that no connect resets
Unparsed(held, batch) ==
  IF batch = <<>> THEN held \cup {Episode} ELSE {}

\* the handler of async_read_some with no error: the frames decoded from
\* the chunk are dispatched, then the read is armed again
ReadOk(batch) ==
  /\ Running
  /\ reads_armed > 0
  /\ nreads < MaxReads
  /\ nreads' = nreads + 1
  /\ pac_' = Unparsed(pac_, batch)
  /\ LET s == DispatchBatch([tbl |-> ongoing_calls_, fut |-> fut,
                             posts |-> <<>>, fault |-> 0], batch)
     IN /\ ongoing_calls_' = s.tbl
        /\ fut' = s.fut
        /\ strand_q' = strand_q \o s.posts
        /\ faulted_on' = s.fault
        /\ raced' = (raced \/ (Iterating # {} /\ s.tbl # ongoing_calls_))
        /\ IF s.fault # 0
             \* the exception leaves io_.run() and the thread function
             THEN /\ io_thread' = "terminated"
                  /\ reads_armed' = reads_armed - 1
             ELSE /\ io_thread' = io_thread
                  /\ reads_armed' = reads_armed
  /\ UNCHANGED <<state_, is_connected_, call_idx_, written, timeout_, callback_,
                 cb_log, conn_prom, mutex, pc, idx, att, st, timed, wake, wc_result,
                 calls, wa, touched>>

\* a read error that fails the pending calls: the table is cleared, which
\* breaks the promises it holds
ReadError_FailsPending(ec) ==
  /\ Running
  /\ reads_armed > 0
  /\ nreads < MaxReads
  /\ nreads' = nreads + 1
  /\ reads_armed' = reads_armed - 1
  /\ ongoing_calls_' = [i \in TableIds |-> NoCall]
  /\ fut' = [b \in DOMAIN fut |-> IF fut[b] = Pending THEN Broken ELSE fut[b]]
  /\ IF ec \in {"eof", "connection_reset"}
       THEN SetState("disconnected")
       ELSE UNCHANGED <<state_, cb_log>>
  /\ UNCHANGED <<is_connected_, call_idx_, strand_q, written, timeout_, callback_,
                 conn_prom, pac_, io_thread, faulted_on, mutex, pc, idx, att, st,
                 timed, wake, wc_result, calls, wa, raced, touched>>

\* the handler of async_read_some with an error code
ReadError(ec) ==
  /\ Running
  /\ reads_armed > 0
  /\ nreads < MaxReads
  /\ nreads' = nreads + 1
  /\ reads_armed' = reads_armed - 1
  /\ IF ec \in {"eof", "connection_reset"}
       THEN SetState("disconnected")
       ELSE UNCHANGED <<state_, cb_log>>
  /\ UNCHANGED <<is_connected_, call_idx_, ongoing_calls_, strand_q, written, timeout_,
                 callback_, conn_prom, pac_, io_thread, faulted_on, mutex, pc, idx,
                 att, st, timed, wake, wc_result, calls, fut, wa, raced, touched>>

\* ------------------------------------------------------ engine: strand
\* the closure of post without the registration: the buffer is written only
Insert_Skipped(tbl, b) == tbl

\* ongoing_calls_.insert(make_pair(idx, make_pair(func_name, move(*p)))) for
\* post number b: insert leaves an existing entry alone. The promise *p is
\* moved from inside the closure, so the caller of post took its future
\* before posting
Insert(tbl, b) ==
  IF Has(tbl, calls[b].idx) THEN tbl
  ELSE [tbl EXCEPT ![calls[b].idx] =
          [name |-> calls[b].name, prom |-> b, ready |-> FALSE, got |-> TRUE]]

\* the promise of post b after the insert: when the insert did nothing the
\* pair that holds the promise is destroyed, which breaks the promise
AfterInsert(tbl, f, b) ==
  IF Has(tbl, calls[b].idx) THEN [f EXCEPT ![b] = Broken] ELSE f

\* ongoing_calls_.erase(id); an entry destroyed with its promise unsatisfied
\* breaks the promise
AfterErase(tbl, f, id) ==
  IF Has(tbl, id) /\ tbl[id].prom > 0 /\ ~tbl[id].ready
    THEN [f EXCEPT ![tbl[id].prom] = Broken] ELSE f

\* the buffer put before the ones already handed over
HandOff_Front(w, b) == <<b>> \o w

\* impl::write(item): the buffer is handed to writer_->write
HandOff(w, b) == Append(w, b)

\* the strand runs the closure at the head of its queue
StrandRun ==
  /\ Running
  /\ strand_q # <<>>
  /\ LET c == Head(strand_q)
     IN /\ strand_q' = Tail(strand_q)
        /\ CASE c.op = "call" ->
                  /\ ongoing_calls_' = Insert(ongoing_calls_, c.arg)
                  /\ fut' = AfterInsert(ongoing_calls_, fut, c.arg)
                  /\ written' = HandOff(written, c.arg)
             [] c.op = "write" ->
                  /\ written' = HandOff(written, c.arg)
                  /\ UNCHANGED <<ongoing_calls_, fut>>
             [] c.op = "erase" ->
                  /\ ongoing_calls_' = [ongoing_calls_ EXCEPT ![c.arg] = NoCall]
                  /\ fut' = AfterErase(ongoing_calls_, fut, c.arg)
                  /\ UNCHANGED written
  /\ raced' = (raced \/ (Iterating # {} /\ ongoing_calls_' # ongoing_calls_))
  /\ UNCHANGED <<state_, is_connected_, call_idx_, timeout_, callback_, cb_log,
                 conn_prom, pac_, reads_armed, nreads, io_thread, faulted_on, mutex,
                 pc, idx, att, st, timed, wake, wc_result, calls, wa, touched>>

\* io_.run() returns when the io_service has no work left: no handler
\* queued and no asynchronous operation outstanding
IoRunReturns ==
  /\ Running
  /\ strand_q = <<>>
  /\ reads_armed = 0
  /\ \A k \in DOMAIN conn_prom : conn_prom[k] # "pending"
  /\ io_thread' = "returned"
  /\ UNCHANGED <<state_, is_connected_, call_idx_, ongoing_calls_, strand_q, written,
                 timeout_, callback_, cb_log, conn_prom, pac_, reads_armed, nreads,
                 faulted_on, mutex, pc, idx, att, st, timed, wake, wc_result, calls,
                 fut, wa, raced, touched>>

\* ---------------------------------------------- caller: get_next_call_idx
\* ++(pimpl->call_idx_)
CallIdxIncrement(t) ==
  /\ Alive
  /\ pc[t] = "idle"
  /\ call_idx_ < MaxPosts
  /\ Len(calls) + Cardinality({u \in Threads : pc[u] \in {"idx_inc", "post"}}) < MaxPosts
  /\ call_idx_' = call_idx_ + 1
  /\ pc' = [pc EXCEPT ![t] = "idx_inc"]
  /\ UNCHANGED <<state_, is_connected_, ongoing_calls_, strand_q, written, timeout_,
                 callback_, cb_log, conn_prom, pac_, reads_armed, nreads, io_thread,
                 faulted_on, mutex, idx, att, st, timed, wake, wc_result, calls, fut,
                 wa, raced, touched>>

\* return pimpl->call_idx_
CallIdxReturn(t) ==
  /\ Alive
  /\ pc[t] = "idx_inc"
  /\ idx' = [idx EXCEPT ![t] = call_idx_]
  /\ pc' = [pc EXCEPT ![t] = "post"]
  /\ UNCHANGED <<state_, is_connected_, call_idx_, ongoing_calls_, strand_q, written,
                 timeout_, callback_, cb_log, conn_prom, pac_, reads_armed, nreads,
                 io_thread, faulted_on, mutex, att, st, timed, wake, wc_result, calls,
                 fut, wa, raced, touched>>

\* ------------------------------------------------------- caller: post
\* client::post(buffer, idx, func_name, p): the closure that registers the
\* call and writes its buffer is posted to the strand
Post(t) ==
  /\ Alive
  /\ pc[t] = "post"
  /\ LET b == Len(calls) + 1
     IN /\ calls' = Append(calls, [idx |-> idx[t], name |-> MethodOf[t], raw |-> FALSE])
        /\ fut' = Append(fut, Pending)
        /\ strand_q' = Append(strand_q, [op |-> "call", arg |-> b])
  /\ pc' = [pc EXCEPT ![t] = "idle"]
  /\ idx' = [idx EXCEPT ![t] = 0]
  /\ UNCHANGED <<state_, is_connected_, call_idx_, ongoing_calls_, written, timeout_,
                 callback_, cb_log, conn_prom, pac_, reads_armed, nreads, io_thread,
                 faulted_on, mutex, att, st, timed, wake, wc_result, wa, raced, touched>>

\* client::post(buffer): the closure that writes the buffer is posted
PostRaw(t) ==
  /\ Alive
  /\ pc[t] = "idle"
  /\ Len(calls) + Cardinality({u \in Threads : pc[u] \in {"idx_inc", "post"}}) < MaxPosts
  /\ LET b == Len(calls) + 1
     IN /\ calls' = Append(calls, [idx |-> 0, name |-> "", raw |-> TRUE])
        /\ fut' = Append(fut, [kind |-> "raw"])
        /\ strand_q' = Append(strand_q, [op |-> "write", arg |-> b])
  /\ UNCHANGED <<state_, is_connected_, call_idx_, ongoing_calls_, written, timeout_,
                 callback_, cb_log, conn_prom, pac_, reads_armed, nreads, io_thread,
                 faulted_on, mutex, pc, idx, att, st, timed, wake, wc_result, wa,
                 raced, touched>>

\* -------------------------------------------------- caller: wait_conn
\* std::unique_lock<std::mutex> lock(mut_connection_finished_)
WaitConnLock(t) ==
  /\ Alive
  /\ pc[t] = "idle"
  /\ mutex = 0
  /\ mutex' = t
  /\ pc' = [pc EXCEPT ![t] = "wc_locked"]
  /\ UNCHANGED <<state_, is_connected_, call_idx_, ongoing_calls_, strand_q, written,
                 timeout_, callback_, cb_log, conn_prom, pac_, reads_armed, nreads,
                 io_thread, faulted_on, idx, att, st, timed, wake, wc_result, calls,
                 fut, wa, raced, touched>>

\* the state check left out: wait_conn waits whatever the state
MustWait_Always(seen) == TRUE

\* wait_conn decides to wait: the state it reads is not connected
MustWait(seen) == seen # "connected"

\* connection_state state = state_, read with the mutex held
WaitConnRead(t) ==
  /\ Alive
  /\ pc[t] = "wc_locked"
  /\ st' = [st EXCEPT ![t] = state_]
  /\ pc' = [pc EXCEPT ![t] = "wc_checked"]
  /\ UNCHANGED <<state_, is_connected_, call_idx_, ongoing_calls_, strand_q, written,
                 timeout_, callback_, cb_log, conn_prom, pac_, reads_armed, nreads,
                 io_thread, faulted_on, mutex, idx, att, timed, wake, wc_result, calls,
                 fut, wa, raced, touched>>

\* the state check: wait_conn returns at once, or starts to wait on
\* conn_finished_ (wait and wait_for release the mutex)
WaitConnCheck(t) ==
  /\ Alive
  /\ pc[t] = "wc_checked"
  /\ mutex' = 0
  /\ st' = [st EXCEPT ![t] = "none"]
  /\ IF MustWait(st[t])
       THEN /\ pc' = [pc EXCEPT ![t] = "wc_wait"]
            /\ timed' = [timed EXCEPT ![t] = timeout_ # NoTimeout]
            /\ wc_result' = [wc_result EXCEPT ![t] = "none"]
       ELSE /\ pc' = [pc EXCEPT ![t] = "idle"]
            /\ timed' = [timed EXCEPT ![t] = timeout_ # NoTimeout]
            /\ wc_result' = [wc_result EXCEPT ![t] = "immediate"]
  /\ UNCHANGED <<state_, is_connected_, call_idx_, ongoing_calls_, strand_q, written,
                 timeout_, callback_, cb_log, conn_prom, pac_, reads_armed, nreads,
                 io_thread, faulted_on, idx, att, wake, calls, fut, wa, raced, touched>>

\* conn_finished_.wait_for runs out of time
WaitConnTimeout(t) ==
  /\ Alive
  /\ pc[t] = "wc_wait"
  /\ timed[t]
  /\ pc' = [pc EXCEPT ![t] = "wc_woken"]
  /\ wake' = [wake EXCEPT ![t] = "timeout"]
  /\ UNCHANGED <<state_, is_connected_, call_idx_, ongoing_calls_, strand_q, written,
                 timeout_, callback_, cb_log, conn_prom, pac_, reads_armed, nreads,
                 io_thread, faulted_on, mutex, idx, att, st, timed, wc_result, calls,
                 fut, wa, raced, touched>>

\* wait and wait_for take no predicate: a spurious wake-up ends them
WaitConnSpurious(t) ==
  /\ Alive
  /\ pc[t] = "wc_wait"
  /\ pc' = [pc EXCEPT ![t] = "wc_woken"]
  /\ wake' = [wake EXCEPT ![t] = "spurious"]
  /\ UNCHANGED <<state_, is_connected_, call_idx_, ongoing_calls_, strand_q, written,
                 timeout_, callback_, cb_log, conn_prom, pac_, reads_armed, nreads,
                 io_thread, faulted_on, mutex, idx, att, st, timed, wc_result, calls,
                 fut, wa, raced, touched>>

\* the wait takes the mutex again and wait_conn ends: it throws rpc::timeout
\* when wait_for returned cv_status::timeout, and returns otherwise
WaitConnReturn(t) ==
  /\ Alive
  /\ pc[t] = "wc_woken"
  /\ mutex = 0
  /\ pc' = [pc EXCEPT ![t] = "idle"]
  /\ wc_result' = [wc_result EXCEPT ![t] = wake[t]]
  /\ wake' = [wake EXCEPT ![t] = "none"]
  /\ UNCHANGED <<state_, is_connected_, call_idx_, ongoing_calls_, strand_q, written,
                 timeout_, callback_, cb_log, conn_prom, pac_, reads_armed, nreads,
                 io_thread, faulted_on, mutex, idx, att, st, timed, calls, fut, wa,
                 raced, touched>>

\* ----------------------------------- caller: reconnect, async_reconnect
\* do_connect from a caller thread: a new attempt with its own promise;
\* reconnect() then blocks in get() on the attempt's future
Reconnect(t, blocking) ==
  /\ Alive
  /\ pc[t] = "idle"
  /\ Len(conn_prom) < MaxAttempts
  /\ conn_prom' = Append(conn_prom, "pending")
  \* async_connect(writer_->socket_, ...) is started on the caller thread
  /\ touched' = touched \cup {"socket"}
  /\ IF blocking
       THEN /\ pc' = [pc EXCEPT ![t] = "rc_get"]
            /\ att' = [att EXCEPT ![t] = Len(conn_prom) + 1]
       ELSE UNCHANGED <<pc, att>>
  /\ UNCHANGED <<state_, is_connected_, call_idx_, ongoing_calls_, strand_q, written,
                 timeout_, callback_, cb_log, pac_, reads_armed, nreads, io_thread,
                 faulted_on, mutex, idx, st, timed, wake, wc_result, calls, fut, wa,
                 raced>>

\* async_reconnect().get() returns once the attempt's promise is set
ReconnectGet(t) ==
  /\ Alive
  /\ pc[t] = "rc_get"
  /\ conn_prom[att[t]] # "pending"
  /\ pc' = [pc EXCEPT ![t] = "idle"]
  /\ att' = [att EXCEPT ![t] = 0]
  /\ UNCHANGED <<state_, is_connected_, call_idx_, ongoing_calls_, strand_q, written,
                 timeout_, callback_, cb_log, conn_prom, pac_, reads_armed, nreads,
                 io_thread, faulted_on, mutex, idx, st, timed, wake, wc_result, calls,
                 fut, wa, raced, touched>>

\* ------------------------------------------ caller: wait_all_responses
\* the ids the table holds an entry under
Entries(tbl) == {id \in TableIds : Has(tbl, id)}
\* the calls whose promise the table holds: the calls registered
Registered(tbl) == {tbl[id].prom : id \in {i \in Entries(tbl) : tbl[i].prom > 0}}

\* for (auto &c : pimpl->ongoing_calls_): the loop starts on the caller
\* thread, on the table itself, with no lock and not on the strand
WaitAllBegin(t) ==
  /\ Alive
  /\ pc[t] = "idle"
  /\ Cardinality({u \in Threads : pc[u] = "wa_iter" \/ wa[u].result # "none"}) < MaxWaits
  /\ pc' = [pc EXCEPT ![t] = "wa_iter"]
  /\ wa' = [wa EXCEPT ![t] = [snap |-> Registered(ongoing_calls_),
                              seen |-> {}, result |-> "none"]]
  /\ touched' = touched \cup {"table"}
  /\ UNCHANGED <<state_, is_connected_, call_idx_, ongoing_calls_, strand_q, written,
                 timeout_, callback_, cb_log, conn_prom, pac_, reads_armed, nreads,
                 io_thread, faulted_on, mutex, idx, att, st, timed, wake, wc_result,
                 calls, fut, raced>>

\* c.second.second.get_future().wait() on the next entry, in whatever order
\* the unordered_map yields: get_future throws std::future_error when the
\* promise's future was taken before, else wait() returns once the promise
\* is satisfied
WaitAllVisit(t) ==
  /\ Alive
  /\ pc[t] = "wa_iter"
  /\ \E id \in Entries(ongoing_calls_) \ wa[t].seen :
       LET c == ongoing_calls_[id]
       IN IF c.got
            THEN /\ pc' = [pc EXCEPT ![t] = "idle"]
                 /\ wa' = [wa EXCEPT ![t].result = "future_error"]
                 /\ UNCHANGED ongoing_calls_
            ELSE /\ c.ready
                 /\ ongoing_calls_' = [ongoing_calls_ EXCEPT ![id].got = TRUE]
                 /\ wa' = [wa EXCEPT ![t].seen = @ \cup {id}]
                 /\ UNCHANGED pc
  /\ UNCHANGED <<state_, is_connected_, call_idx_, strand_q, written, timeout_,
                 callback_, cb_log, conn_prom, pac_, reads_armed, nreads, io_thread,
                 faulted_on, mutex, idx, att, st, timed, wake, wc_result, calls, fut,
                 raced, touched>>

\* the loop reaches the end of the table and wait_all_responses returns
WaitAllReturn(t) ==
  /\ Alive
  /\ pc[t] = "wa_iter"
  /\ Entries(ongoing_calls_) \subseteq wa[t].seen
  /\ pc' = [pc EXCEPT ![t] = "idle"]
  /\ wa' = [wa EXCEPT ![t].result = "returned"]
  /\ UNCHANGED <<state_, is_connected_, call_idx_, ongoing_calls_, strand_q, written,
                 timeout_, callback_, cb_log, conn_prom, pac_, reads_armed, nreads,
                 io_thread, faulted_on, mutex, idx, att, st, timed, wake, wc_result,
                 calls, fut, raced, touched>>

\* the table was inserted into or erased from by the io thread during the
\* loop: a data race on the unordered_map, undefined behaviour. Besides
\* going on as if nothing happened (WaitAllVisit, WaitAllReturn) the loop
\* can follow a dangling iterator and the process dies
WaitAllCrash(t) ==
  /\ Alive
  /\ pc[t] = "wa_iter"
  /\ raced
  /\ io_thread' = "terminated"
  /\ wa' = [wa EXCEPT ![t].result = "crashed"]
  /\ UNCHANGED <<state_, is_connected_, call_idx_, ongoing_calls_, strand_q, written,
                 timeout_, callback_, cb_log, conn_prom, pac_, reads_armed, nreads,
                 faulted_on, mutex, pc, idx, att, st, timed, wake, wc_result, calls,
                 fut, raced, touched>>

\* ------------------------------------ caller: set_timeout, clear_timeout
SetTimeout(t) ==
  /\ Alive
  /\ pc[t] = "idle"
  /\ timeout_ = NoTimeout
  /\ timeout_' = TimeoutMs
  /\ UNCHANGED <<state_, is_connected_, call_idx_, ongoing_calls_, strand_q, written,
                 callback_, cb_log, conn_prom, pac_, reads_armed, nreads, io_thread,
                 faulted_on, mutex, pc, idx, att, st, timed, wake, wc_result, calls,
                 fut, wa, raced, touched>>

ClearTimeout(t) ==
  /\ Alive
  /\ pc[t] = "idle"
  /\ timeout_ # NoTimeout
  /\ timeout_' = NoTimeout
  /\ UNCHANGED <<state_, is_connected_, call_idx_, ongoing_calls_, strand_q, written,
                 callback_, cb_log, conn_prom, pac_, reads_armed, nreads, io_thread,
                 faulted_on, mutex, pc, idx, att, st, timed, wake, wc_result, calls,
                 fut, wa, raced, touched>>

\* ------------------------------------------------------ client::~client
\* io_.stop() and the join of the io thread, once no caller is inside an
\* operation of the client
Destroy ==
  /\ Alive
  /\ \A t \in Threads : pc[t] = "idle"
  /\ io_thread' = "stopped"
  /\ UNCHANGED <<state_, is_connected_, call_idx_, ongoing_calls_, strand_q, written,
                 timeout_, callback_, cb_log, conn_prom, pac_, reads_armed, nreads,
                 faulted_on, mutex, pc, idx, att, st, timed, wake, wc_result, calls,
                 fut, wa, raced, touched>>

\* ------------------------------------------------------------------ Next
\* the handlers the io thread runs
Engine ==
  \/ \E k \in DOMAIN conn_prom : ConnectSucceed(k)
  \/ \E k \in DOMAIN conn_prom : ConnectFail(k)
  \/ \E ec \in ErrorCodes : ReadError(ec)
  \/ IoRunReturns

\* calls: id allocation, registration, writes, response dispatch
CallSteps ==
  \/ \E batch \in Batches : ReadOk(batch)
  \/ StrandRun
  \/ \E t \in Threads : CallIdxIncrement(t)
  \/ \E t \in Threads : CallIdxReturn(t)
  \/ \E t \in Threads : Post(t)
  \/ \E t \in Threads : PostRaw(t)

\* the connection: waiting for it, reconnecting, the timeout, shutdown
ConnSteps ==
  \/ \E t \in Threads : WaitConnLock(t)
  \/ \E t \in Threads : WaitConnRead(t)
  \/ \E t \in Threads : WaitConnCheck(t)
  \/ \E t \in Threads : WaitConnTimeout(t)
  \/ \E t \in Threads : WaitConnSpurious(t)
  \/ \E t \in Threads : WaitConnReturn(t)
  \/ \E t \in Threads, blocking \in BOOLEAN : Reconnect(t, blocking)
  \/ \E t \in Threads : ReconnectGet(t)
  \/ \E t \in Threads : SetTimeout(t)
  \/ \E t \in Threads : ClearTimeout(t)
  \/ Destroy

\* wait_all_responses on caller threads
WaitAllSteps ==
  \/ \E t \in Threads : WaitAllBegin(t)
  \/ \E t \in Threads : WaitAllVisit(t)
  \/ \E t \in Threads : WaitAllReturn(t)
  \/ \E t \in Threads : WaitAllCrash(t)

Next == Engine \/ CallSteps \/ ConnSteps \/ WaitAllSteps
Spec == Init /\ [][Next]_vars

\* the client used for calls only
NextCalls == Engine \/ CallSteps
SpecCalls == Init /\ [][NextCalls]_vars

\* the client used for calls that wait_all_responses waits for
NextWaitAll == Engine \/ CallSteps \/ WaitAllSteps
SpecWaitAll == Init /\ [][NextWaitAll]_vars

\* the client reading responses over several connections
NextDecoder ==
  \/ Engine
  \/ \E batch \in Batches : ReadOk(batch)
  \/ StrandRun
  \/ \E t \in Threads, blocking \in BOOLEAN : Reconnect(t, blocking)
  \/ \E t \in Threads : ReconnectGet(t)
SpecDecoder == Init /\ [][NextDecoder]_vars

\* the client used for its connection only
NextConn == Engine \/ ConnSteps
SpecConn == Init /\ [][NextConn]_vars

\* ================================================================ claims
\* the posts that are calls (client::post with an idx), not raw buffers
CallPosts == {b \in DOMAIN calls : ~calls[b].raw}
\* the call whose promise the table holds under id (0: none)
Resolved(b) == fut[b].kind \in {"value", "error"}

\* C1: at-most-once resolution. Over any sequence of decoded frames, two
\* frames with the same id included, a call's completion receives one
\* outcome at most and a second frame with the call's id is a no-op: it
\* does not make an exception leave the read handler.
C1_SecondFrameIsNoOp ==
  \A b \in CallPosts :
    ~(faulted_on = calls[b].idx /\ ongoing_calls_[calls[b].idx].prom = b)

\* C2: correlation. A completion resolved with a value holds the result of
\* the frame that carries the id the call was registered under; one resolved
\* with an error holds that frame's error and the method name stored at
\* registration; no frame of another id resolves it.
C2_Correlation ==
  \A b \in CallPosts :
    /\ fut[b].kind = "value" => fut[b].payload = ResultOf(calls[b].idx)
    /\ fut[b].kind = "error" =>
         /\ fut[b].payload = ErrorOf(calls[b].idx)
         /\ fut[b].func = calls[b].name
    /\ (ongoing_calls_[calls[b].idx].prom = b /\ ongoing_calls_[calls[b].idx].ready)
         => Resolved(b)

\* responses out of issue order: a later call has its error, with an
\* earlier call registered and still pending
C2_Witness ==
  \E b1 \in CallPosts, b2 \in CallPosts :
    /\ b1 < b2
    /\ calls[b1].idx < calls[b2].idx
    /\ fut[b2].kind = "error"
    /\ fut[b1].kind = "pending"
    /\ ongoing_calls_[calls[b1].idx].prom = b1

\* C3: id uniqueness. The ids get_next_call_idx returns start at 1 and no
\* two invocations, from one thread or from several, return the same id.
C3_UniqueIds ==
  /\ \A b1 \in CallPosts, b2 \in CallPosts : b1 # b2 => calls[b1].idx # calls[b2].idx
  /\ \A t \in Threads : pc[t] = "post" =>
       /\ idx[t] >= 1
       /\ \A b \in CallPosts : calls[b].idx # idx[t]
       /\ \A u \in Threads \ {t} : pc[u] = "post" => idx[u] # idx[t]

\* the buffers of the write closures still in the strand's queue
IsWriter(c) == c.op \in {"call", "write"}
QueuedBuffers ==
  LET q == SelectSeq(strand_q, IsWriter) IN [i \in 1..Len(q) |-> q[i].arg]

\* C4: write ordering. The buffers posted are handed to the writer one at a
\* time in the order of their posts: the buffers handed over so far,
\* followed by those still queued, are the posts 1, 2, ... in order, none
\* dropped, duplicated or reordered.
C4_WriteOrdering ==
  written \o QueuedBuffers = [i \in 1..Len(calls) |-> i]

\* a call's buffer and a raw buffer both handed over, with an erase closure
\* of a dispatched response queued behind them
C4_Witness ==
  /\ Len(written) >= 2
  /\ \E b \in DOMAIN calls : calls[b].raw
  /\ \E b \in CallPosts : Resolved(b)

\* C5: frames of unknown ids are ignored. A frame whose id has no entry in
\* the table leaves the table as it was: no entry is created for the id.
C5_UnknownIdIgnored ==
  \A id \in TableIds : ongoing_calls_[id].prom # 0

\* C6: connection wait short-circuit. A wait_conn whose state check finds
\* the state connected returns without waiting on conn_finished_, whether
\* or not a timeout is set.
C6_ShortCircuit ==
  [][\A t \in Threads :
       (pc[t] = "wc_checked" /\ st[t] = "connected" /\ pc'[t] # "wc_checked")
         => (pc'[t] = "idle" /\ wc_result'[t] = "immediate")]_vars

\* a wait_conn returned at once with a timeout set
C6_Witness ==
  \E t \in Threads :
    wc_result[t] = "immediate" /\ timed[t] /\ pc[t] = "idle"

\* C7: a connect attempt that fails fulfils the signal a successful attempt
\* fulfils: the step in which an attempt fails releases the callers blocked
\* in wait_conn with no timeout.
C7_FailureReleasesWaiters ==
  [][\A k \in DOMAIN conn_prom :
       (conn_prom[k] = "pending" /\ conn_prom'[k] = "disconnected")
         => \A t \in Threads : (pc[t] = "wc_wait" /\ ~timed[t]) => pc'[t] = "wc_woken"]_vars

\* C8: bounded connection wait. A wait_conn that waited with a timeout and
\* returned without throwing rpc::timeout did so because a connect attempt
\* succeeded.
C8_NormalReturnNeedsConnect ==
  \A t \in Threads :
    (timed[t] /\ wc_result[t] \in {"notify", "spurious"})
      => \E k \in DOMAIN conn_prom : conn_prom[k] = "connected"

\* C9: observer notification. With a state handler set, a step that changes
\* state_ invokes the handler exactly once, with the state before and the
\* state after, and every invocation of the handler is made by such a
\* set_state, in the step that assigns state_.
C9_ObserverNotified ==
  [][/\ (callback_ /\ state_' # state_)
          => cb_log' = Append(cb_log, <<state_, state_'>>)
     /\ cb_log' # cb_log => cb_log' = Append(cb_log, <<state_, state_'>>)]_vars

\* a first connect attempt that failed, reported as (initial, disconnected),
\* followed by a reconnect that succeeded
C9_Witness ==
  /\ callback_
  /\ cb_log = <<(<<"initial", "disconnected">>), (<<"disconnected", "connected">>)>>

\* C10: engine liveness. Until the destructor the io thread keeps running
\* handlers, so a connect attempt that is pending has an engine to complete
\* it, after connect failures and read errors too.
C10_PendingAttemptHasEngine ==
  (\E k \in DOMAIN conn_prom : conn_prom[k] = "pending")
    => io_thread \in {"running", "stopped"}
\* C11: a read-side fault does not touch pending calls. The step in which a
\* read ends with eof, connection_reset or any other error leaves the table
\* as it was and resolves no completion: calls pending before it are
\* pending after it.
C11_FaultKeepsCallsPending ==
  [][\A ec \in ErrorCodes :
       ReadError(ec) => /\ ongoing_calls_' = ongoing_calls_
                        /\ fut' = fut]_vars

\* the connection was lost to a read error with a call registered and
\* still pending
C11_Witness ==
  /\ state_ = "disconnected"
  /\ reads_armed = 0
  /\ \E k \in DOMAIN conn_prom : conn_prom[k] = "connected"
  /\ \E b \in CallPosts :
       fut[b] = Pending /\ ongoing_calls_[calls[b].idx].prom = b

\* C12: wait_all_responses, called on a caller thread while calls are
\* pending and the engine dispatches responses, returns only after every
\* call that was registered when it began has been resolved, and returns
\* once they all have been: it does not end any other way, and when it has
\* ended no call of its beginning is pending.
C12_WaitAllWaitsForRegistered ==
  \A t \in Threads :
    (pc[t] = "idle" /\ wa[t].result # "none")
      => /\ wa[t].result = "returned"
         /\ \A b \in wa[t].snap : fut[b] # Pending

\* the buffers handed to the writer so far
HandedOver(w) == {w[i] : i \in DOMAIN w}

\* C13: registration and enqueue are one step of the strand, insertion
\* first. In the step that hands a call's buffer to the writer the table
\* has an entry under the call's id, and the step that registers a call is
\* the step that hands its buffer over: no dispatch runs in between.
C13_RegisteredAtHandOff ==
  [][\A b \in CallPosts :
       /\ (b \notin HandedOver(written) /\ b \in HandedOver(written'))
            => Has(ongoing_calls_', calls[b].idx)
       /\ (ongoing_calls_[calls[b].idx].prom # b /\ ongoing_calls_'[calls[b].idx].prom = b)
            => (b \notin HandedOver(written) /\ b \in HandedOver(written'))]_vars

\* a call's buffer handed over with its entry registered and unresolved
C13_Witness ==
  \E b \in CallPosts :
    /\ b \in HandedOver(written)
    /\ ongoing_calls_[calls[b].idx].prom = b
    /\ fut[b] = Pending

States == {"initial", "connected", "disconnected"}

\* C14: connection state transitions. state_ is one of initial, connected,
\* disconnected; once left, initial is never entered again; and set_state
\* never goes from connected to connected: the state handler is never
\* invoked with previous = connected and new = connected, a reconnect
\* while connected included.
C14_Transitions ==
  /\ state_ \in States
  /\ \A i \in DOMAIN cb_log :
       /\ cb_log[i][2] # "initial"
       /\ cb_log[i] # <<"connected", "connected">>

\* C15: read loop termination. A read that ends with eof or
\* connection_reset sets the state to disconnected and is not armed again;
\* a new read is armed only by a connect attempt that succeeds or by a
\* read that completed without error; and every read that completes
\* without error arms exactly one new read.
C15_ReadLoop ==
  [][/\ \A ec \in {"eof", "connection_reset"} :
          ReadError(ec) => /\ state_' = "disconnected"
                           /\ reads_armed' = reads_armed - 1
     /\ reads_armed' > reads_armed
          => \E k \in DOMAIN conn_prom :
               conn_prom[k] = "pending" /\ conn_prom'[k] = "connected"
     /\ \A batch \in Batches : ReadOk(batch) => reads_armed' = reads_armed]_vars

\* C16: every read-side failure disconnects. Whatever error a read ends
\* with, the state becomes disconnected, so the state is never connected
\* with the read loop stopped: state_ = connected implies that a read is
\* armed.
C16_ConnectedHasRead ==
  state_ = "connected" => reads_armed > 0

\* the ids of the erase closures in the strand's queue
QueuedErases == {strand_q[i].arg : i \in {j \in DOMAIN strand_q : strand_q[j].op = "erase"}}

\* C17: deferred removal. The entry of a dispatched response is not erased
\* by the dispatch but by an erase posted to the strand, which runs in the
\* end: while it is queued the entry it will remove is there and is the
\* resolved one, not one registered later under the id, and the io thread
\* is running handlers, so that the erase is run.
C17_DeferredErase ==
  \A id \in QueuedErases :
    /\ Has(ongoing_calls_, id)
    /\ ongoing_calls_[id].ready
    /\ io_thread = "running"

\* C18: single-owner discipline. The table of ongoing calls and the socket
\* are accessed only by handlers on the io thread: no operation running
\* on a caller thread (a call, wait_all_responses, reconnect,
\* async_reconnect) accesses either of them directly.
C18_SingleOwner ==
  touched = {}

C20_DecoderIsolation ==
  Cardinality(pac_) <= 1
====
